---- MODULE Spec2Model ----
(***************************************************************************)
(* State-machine model of demors: the in-memory tree of src/src/fs.rs      *)
(* (Fs, Dir, File, walk, split_path) and the transaction buffer of         *)
(* src/src/trans.rs (Trans).                                               *)
(*                                                                         *)
(* Strings that the code inspects (paths, names) are sequences of          *)
(* one-character strings; file payloads are never inspected and stay       *)
(* opaque.  A Kid (Arc<Mutex<Box<dyn DispElem>>>) is an index into fs.mem, *)
(* the store of every node allocated so far; a node that no directory      *)
(* points to any more stays in the store, as it stays alive through the    *)
(* handles the caller kept.  Option<T> is <<>> (None) or <<x>> (Some(x)).  *)
(***************************************************************************)
EXTENDS Integers, Sequences, FiniteSets, TLC

VARIABLES
    fs,      \* the Fs: [inode_alloc, root, mem]
    trans,   \* the Trans: [args, resp]
    input,   \* the path string handed to test_walk
    calls,   \* the calls in flight on the tree, each with its locals and its position
    locks,   \* for each node of fs.mem, the call that holds its Mutex (0: none)
    stream,  \* history: all the bytes given to set_resp and all those read_resp returned
    origin,  \* history: for each node of fs.mem, the parent and name it was created under
    last     \* history: the last call made, its inputs and what it returned

vars == <<fs, trans, input, calls, locks, stream, origin, last>>

----------------------------------------------------------------------------
(* Bounds of the model and input alphabets.                                *)

MaxNodes == 3
MaxTokens == 6
MaxArgs == 3
MaxResp == 4

\* the longest segment sequence handed to walk directly
MaxComps == MaxNodes - 1

Slash == "/"
Dot == <<".">>
DotDot == <<".", ".">>

\* names given to new_file / new_dir
Names == {<<"a">>, <<"b">>, Dot, DotDot}
\* file payloads
Datas == {"HELLO", "HI"}
\* segments handed to walk: the names and the empty segment
Segs == Names \cup {<<>>}

SeqsUpTo(S, n) == UNION {[1..k -> S] : k \in 0..n}

CompSeqs == SeqsUpTo(Segs, MaxComps)

\* the names of main's tree
Dir1 == <<"d", "i", "r", "1">>
Dir2 == <<"d", "i", "r", "2">>
F1 == <<"f", "1">>
F2 == <<"f", "2">>

\* pieces that path strings are put together from
Tokens == {<<Slash>>, Dir1, F1, Dot, DotDot}

RECURSIVE Flatten(_)
Flatten(ss) == IF ss = <<>> THEN <<>> ELSE Head(ss) \o Flatten(Tail(ss))

PathStrings == {Flatten(ts) : ts \in SeqsUpTo(Tokens, MaxTokens)}

\* records given to add_arg: "", "a", "b"
ArgRecords == {<<>>, <<97>>, <<98>>}
\* byte strings given to set_resp: "", "H", "EL"
RespChunks == {<<>>, <<72>>, <<69, 76>>}

None == <<>>
Some(x) == <<x>>

Min(a, b) == IF a <= b THEN a ELSE b

----------------------------------------------------------------------------
(* fs.rs                                                                   *)

OWNER_UID == 0
OWNER_GID == 55
DIR_PERM == 360
FILE_PERM == 288

\* std::str::split('/'): the pieces between slashes, empty ones included
RECURSIVE str_split(_)
str_split(path) ==
    IF path = <<>> THEN << <<>> >>
    ELSE LET init == str_split(SubSeq(path, 1, Len(path) - 1))
             c == path[Len(path)]
         IN IF c = Slash THEN Append(init, <<>>)
            ELSE [init EXCEPT ![Len(init)] = Append(@, c)]

split_path_nofilter(path) == str_split(path)

split_path(path) == SelectSeq(str_split(path), LAMBDA comp : Len(comp) > 0)

\* the timestamps (SystemTime::now()) are set once and never read or changed
new_attr(ino, kind, perm, nlink) ==
    [ino |-> ino, kind |-> kind, perm |-> perm, nlink |-> nlink,
     uid |-> OWNER_UID, gid |-> OWNER_GID, blksize |-> 512,
     size |-> 0, blocks |-> 0, rdev |-> 0, flags |-> 0, padding |-> 0]

\* HashMap::new()
EmptyKids == [n \in {} |-> 0]

Dir_new(ino) == [attr |-> new_attr(ino, "Directory", DIR_PERM, 2), kids |-> EmptyKids]

File_new(ino, dat) == [attr |-> new_attr(ino, "RegularFile", FILE_PERM, 1), data |-> dat]

\* Elem::to_dir / Elem::to_mut_dir: Some(self) for a Dir, None for a File
to_dir(node) == IF "kids" \in DOMAIN node THEN Some(node) ELSE None

to_mut_dir(node) == IF "kids" \in DOMAIN node THEN Some(node) ELSE None

to_file(node) == IF "data" \in DOMAIN node THEN Some(node) ELSE None

get_attr(node) == node.attr

\* Arc::new(Mutex::new(Box::new(self))): a fresh slot of the store
to_kid(f, node) == [fs |-> [f EXCEPT !.mem = Append(@, node)], ret |-> Len(f.mem) + 1]

Fs_new == to_kid([inode_alloc |-> 1, root |-> 1, mem |-> <<>>], Dir_new(1)).fs

root(f) == f.root

alloc_inode_stuck(f) == [fs |-> f, ret |-> f.inode_alloc]

alloc_inode(f) ==
    [fs |-> [f EXCEPT !.inode_alloc = @ + 1], ret |-> f.inode_alloc + 1]

\* a HashMap insert that keeps the entry already there
kids_insert_keep(kids, name, kid) ==
    [n \in DOMAIN kids \cup {name} |-> IF n \in DOMAIN kids THEN kids[n] ELSE kid]

\* HashMap::insert: the entry under name is set, replacing any entry there
kids_insert(kids, name, kid) ==
    [n \in DOMAIN kids \cup {name} |-> IF n = name THEN kid ELSE kids[n]]

\* new_file with the inode allocated before the parent is looked at
new_file_eager(f, parent, name, dat) ==
    LET a == alloc_inode(f)
    IN IF to_mut_dir(f.mem[parent]) = None
       THEN [fs |-> a.fs, ret |-> None]
       ELSE LET k == to_kid(a.fs, File_new(a.ret, dat))
            IN [fs |-> [k.fs EXCEPT !.mem[parent].kids = kids_insert(@, name, k.ret)],
                ret |-> Some(k.ret)]

new_file(f, parent, name, dat) ==
    LET locked == f.mem[parent]
    IN IF to_mut_dir(locked) = None
       THEN [fs |-> f, ret |-> None]
       ELSE LET a == alloc_inode(f)
                k == to_kid(a.fs, File_new(a.ret, dat))
            IN [fs |-> [k.fs EXCEPT !.mem[parent].kids = kids_insert(@, name, k.ret)],
                ret |-> Some(k.ret)]

\* new_dir inserting the parent's own handle instead of the new node's
new_dir_selfref(f, parent, name) ==
    LET locked == f.mem[parent]
    IN IF to_mut_dir(locked) = None
       THEN [fs |-> f, ret |-> None]
       ELSE LET a == alloc_inode(f)
                k == to_kid(a.fs, Dir_new(a.ret))
            IN [fs |-> [k.fs EXCEPT !.mem[parent].kids = kids_insert(@, name, parent)],
                ret |-> Some(k.ret)]

new_dir(f, parent, name) ==
    LET locked == f.mem[parent]
    IN IF to_mut_dir(locked) = None
       THEN [fs |-> f, ret |-> None]
       ELSE LET a == alloc_inode(f)
                k == to_kid(a.fs, Dir_new(a.ret))
            IN [fs |-> [k.fs EXCEPT !.mem[parent].kids = kids_insert(@, name, k.ret)],
                ret |-> Some(k.ret)]

\* the loop of walk with a found child not moved to
RECURSIVE walk_loop_stay(_, _, _, _)
walk_loop_stay(f, cur, parents, comps) ==
    IF comps = <<>> THEN Some(cur)
    ELSE LET comp == Head(comps)
             rest == Tail(comps)
         IN IF Len(comp) = 0 THEN walk_loop_stay(f, cur, parents, rest)
            ELSE IF to_dir(f.mem[cur]) = None THEN None
            ELSE IF comp = Dot THEN walk_loop_stay(f, cur, parents, rest)
            ELSE IF comp = DotDot
                 THEN IF parents # <<>>
                      THEN walk_loop_stay(f, parents[Len(parents)],
                                          SubSeq(parents, 1, Len(parents) - 1), rest)
                      ELSE walk_loop_stay(f, cur, parents, rest)
            ELSE IF comp \in DOMAIN f.mem[cur].kids
                 THEN walk_loop_stay(f, cur, Append(parents, cur), rest)
            ELSE None

\* the loop of walk with "." and ".." handled before the current node is inspected
RECURSIVE walk_loop_dotfirst(_, _, _, _)
walk_loop_dotfirst(f, cur, parents, comps) ==
    IF comps = <<>> THEN Some(cur)
    ELSE LET comp == Head(comps)
             rest == Tail(comps)
         IN IF Len(comp) = 0 THEN walk_loop_dotfirst(f, cur, parents, rest)
            ELSE IF comp = Dot THEN walk_loop_dotfirst(f, cur, parents, rest)
            ELSE IF comp = DotDot
                 THEN IF parents # <<>>
                      THEN walk_loop_dotfirst(f, parents[Len(parents)],
                                              SubSeq(parents, 1, Len(parents) - 1), rest)
                      ELSE walk_loop_dotfirst(f, cur, parents, rest)
            ELSE IF to_dir(f.mem[cur]) = None THEN None
            ELSE IF comp \in DOMAIN f.mem[cur].kids
                 THEN walk_loop_dotfirst(f, f.mem[cur].kids[comp], Append(parents, cur), rest)
            ELSE None

\* the loop of walk with ".." going back to the root whatever was descended
RECURSIVE walk_loop_uproot(_, _, _, _)
walk_loop_uproot(f, cur, parents, comps) ==
    IF comps = <<>> THEN Some(cur)
    ELSE LET comp == Head(comps)
             rest == Tail(comps)
         IN IF Len(comp) = 0 THEN walk_loop_uproot(f, cur, parents, rest)
            ELSE IF to_dir(f.mem[cur]) = None THEN None
            ELSE IF comp = Dot THEN walk_loop_uproot(f, cur, parents, rest)
            ELSE IF comp = DotDot THEN walk_loop_uproot(f, f.root, <<>>, rest)
            ELSE IF comp \in DOMAIN f.mem[cur].kids
                 THEN walk_loop_uproot(f, f.mem[cur].kids[comp], Append(parents, cur), rest)
            ELSE None

\* the loop of walk with ".." failing when there is no parent to pop
RECURSIVE walk_loop_strict(_, _, _, _)
walk_loop_strict(f, cur, parents, comps) ==
    IF comps = <<>> THEN Some(cur)
    ELSE LET comp == Head(comps)
             rest == Tail(comps)
         IN IF Len(comp) = 0 THEN walk_loop_strict(f, cur, parents, rest)
            ELSE IF to_dir(f.mem[cur]) = None THEN None
            ELSE IF comp = Dot THEN walk_loop_strict(f, cur, parents, rest)
            ELSE IF comp = DotDot
                 THEN IF parents # <<>>
                      THEN walk_loop_strict(f, parents[Len(parents)],
                                            SubSeq(parents, 1, Len(parents) - 1), rest)
                      ELSE None
            ELSE IF comp \in DOMAIN f.mem[cur].kids
                 THEN walk_loop_strict(f, f.mem[cur].kids[comp], Append(parents, cur), rest)
            ELSE None

\* the for loop of walk, from the state (cur, parents) over the segments left
RECURSIVE walk_loop(_, _, _, _)
walk_loop(f, cur, parents, comps) ==
    IF comps = <<>> THEN Some(cur)
    ELSE LET comp == Head(comps)
             rest == Tail(comps)
         IN IF Len(comp) = 0 THEN walk_loop(f, cur, parents, rest)
            ELSE IF to_dir(f.mem[cur]) = None THEN None
            ELSE IF comp = Dot THEN walk_loop(f, cur, parents, rest)
            ELSE IF comp = DotDot
                 THEN IF parents # <<>>
                      THEN walk_loop(f, parents[Len(parents)],
                                     SubSeq(parents, 1, Len(parents) - 1), rest)
                      ELSE walk_loop(f, cur, parents, rest)
            ELSE IF comp \in DOMAIN f.mem[cur].kids
                 THEN walk_loop(f, f.mem[cur].kids[comp], Append(parents, cur), rest)
            ELSE None

walk(f, comps) == walk_loop(f, f.root, <<>>, comps)

test_walk(f, path) == walk(f, split_path(path))

\* the tree main builds (main.rs, lines 30 to 37)
MainFs ==
    LET s0 == Fs_new
        s1 == new_dir(s0, root(s0), Dir1)
        d1 == s1.ret[1]
        s2 == new_dir(s1.fs, root(s1.fs), Dir2)
        s3 == new_file(s2.fs, d1, F1, "HELLO")
        s4 == new_file(s3.fs, d1, F2, "HI")
    IN s4.fs

----------------------------------------------------------------------------
(* trans.rs                                                                *)

Trans_new == [args |-> <<>>, resp |-> <<>>]

arg_mode_args(t) == Len(t.args) = 0

arg_mode(t) == Len(t.resp) = 0

\* add_arg refusing the record once a response is buffered
add_arg_guarded(t, dat) == IF Len(t.resp) = 0 THEN [t EXCEPT !.args = Append(@, dat)] ELSE t

add_arg(t, dat) == [t EXCEPT !.args = Append(@, dat)]

\* take_args taking the buffer before it compares the length
take_args_always(t, n) ==
    IF Len(t.args) >= n
    THEN [trans |-> [t EXCEPT !.args = <<>>], ret |-> Some(SubSeq(t.args, 1, n))]
    ELSE [trans |-> [t EXCEPT !.args = <<>>], ret |-> None]

\* take_args removing only the records it returns
take_args_drain(t, n) ==
    IF Len(t.args) >= n
    THEN [trans |-> [t EXCEPT !.args = SubSeq(@, n + 1, Len(@))],
          ret |-> Some(SubSeq(t.args, 1, n))]
    ELSE [trans |-> t, ret |-> None]

take_args(t, n) ==
    IF Len(t.args) >= n
    THEN LET args == t.args                      \* std::mem::take
             truncated == SubSeq(args, 1, Min(n, Len(args)))
         IN [trans |-> [t EXCEPT !.args = <<>>], ret |-> Some(truncated)]
    ELSE [trans |-> t, ret |-> None]

\* set_resp replacing the response instead of appending to it
set_resp_replace(t, dat) == [t EXCEPT !.resp = dat]

\* set_resp dropping the records buffered when the response starts
set_resp_clearargs(t, dat) == [t EXCEPT !.resp = @ \o dat, !.args = <<>>]

set_resp(t, dat) == [t EXCEPT !.resp = @ \o dat]

\* read_resp keeping the head it returns instead of the tail
read_resp_keephead(t, n) ==
    LET m == Min(n, Len(t.resp))
        hd == SubSeq(t.resp, 1, m)
    IN [trans |-> [t EXCEPT !.resp = hd], ret |-> hd]

\* read_resp returning the head without removing it
read_resp_peek(t, n) ==
    LET m == Min(n, Len(t.resp))
    IN [trans |-> t, ret |-> SubSeq(t.resp, 1, m)]

read_resp(t, n) ==
    LET m == Min(n, Len(t.resp))
        hd == SubSeq(t.resp, 1, m)
        tl == SubSeq(t.resp, m + 1, Len(t.resp))
    IN [trans |-> [t EXCEPT !.resp = tl], ret |-> hd]

----------------------------------------------------------------------------
(* The tree driven through its API: Fs::new, then any sequence of new_file *)
(* and new_dir calls, each with any handle handed out so far as parent.    *)
(* walk changes nothing of the Fs: the properties of Spec that speak of a  *)
(* resolution evaluate walk in the state reached.                          *)

RootOrigin == [parent |-> 0, name |-> <<>>]

Init ==
    /\ fs = Fs_new
    /\ trans = Trans_new
    /\ input = <<>>
    /\ calls = <<>>
    /\ locks = <<0>>
    /\ stream = [sent |-> <<>>, rcvd |-> <<>>]
    /\ origin = <<RootOrigin>>
    /\ last = [op |-> "new"]

Handles == 1..Len(fs.mem)

\* the entry a node was created under, and those of the directories above it,
\* still point to it: no later creation has taken its place
RECURSIVE Attached(_)
Attached(h) ==
    \/ origin[h].parent = 0
    \/ LET o == origin[h]
       IN /\ Attached(o.parent)
          /\ o.name \in DOMAIN fs.mem[o.parent].kids
          /\ fs.mem[o.parent].kids[o.name] = h

\* the bound on the creations: a call is made while the store has fewer than
\* MaxNodes nodes; with MaxNodes nodes in the store one more call is made when
\* it replaces an entry of its parent, so that the tree under the root never
\* has more than MaxNodes nodes and a replaced directory can hold entries
Room(parent, name) ==
    \/ Len(fs.mem) < MaxNodes
    \/ /\ Len(fs.mem) = MaxNodes
       /\ to_dir(fs.mem[parent]) # None
       /\ name \in DOMAIN fs.mem[parent].kids

NewFile ==
    \E parent \in 1..Len(fs.mem), name \in Names, dat \in Datas :
        /\ Room(parent, name)
        /\ LET r == new_file(fs, parent, name, dat)
           IN /\ fs' = r.fs
              /\ origin' = IF r.ret = None THEN origin
                           ELSE Append(origin, [parent |-> parent, name |-> name])
              /\ last' = [op |-> "new_file", parent |-> parent, name |-> name,
                          dat |-> dat, ret |-> r.ret]
        /\ UNCHANGED <<calls, locks, stream, trans, input>>

NewDir ==
    \E parent \in 1..Len(fs.mem), name \in Names :
        /\ Room(parent, name)
        /\ LET r == new_dir(fs, parent, name)
           IN /\ fs' = r.fs
              /\ origin' = IF r.ret = None THEN origin
                           ELSE Append(origin, [parent |-> parent, name |-> name])
              /\ last' = [op |-> "new_dir", parent |-> parent, name |-> name,
                          ret |-> r.ret]
        /\ UNCHANGED <<calls, locks, stream, trans, input>>

Next == NewFile \/ NewDir

Spec == Init /\ [][Next]_vars

----------------------------------------------------------------------------
(* main's use of the tree: Fs::new, the block that builds the tree, and    *)
(* test_walk on a path string.  The path string is drawn at the start.     *)

InitPath ==
    /\ fs = Fs_new
    /\ trans = Trans_new
    /\ input \in PathStrings
    /\ calls = <<>>
    /\ locks = <<0>>
    /\ stream = [sent |-> <<>>, rcvd |-> <<>>]
    /\ origin = <<RootOrigin>>
    /\ last = [op |-> "new"]

MainBuild ==
    /\ fs = Fs_new
    /\ fs' = MainFs
    /\ origin' = <<RootOrigin, [parent |-> 1, name |-> Dir1], [parent |-> 1, name |-> Dir2],
                   [parent |-> 2, name |-> F1], [parent |-> 2, name |-> F2]>>
    /\ last' = [op |-> "build"]
    /\ UNCHANGED <<calls, locks, stream, trans, input>>

TestWalk ==
    /\ last' = [op |-> "test_walk", path |-> input, comps |-> split_path(input),
                ret |-> test_walk(fs, input)]
    /\ UNCHANGED <<calls, locks, stream, fs, trans, input, origin>>

NextPath == MainBuild \/ TestWalk

SpecPath == InitPath /\ [][NextPath]_vars

----------------------------------------------------------------------------
(* One Trans driven through its API.  MaxResp bounds the bytes ever given   *)
(* to set_resp, MaxArgs the records buffered.                              *)

AddArg ==
    \E dat \in ArgRecords :
        /\ Len(trans.args) < MaxArgs
        /\ trans' = add_arg(trans, dat)
        /\ last' = [op |-> "add_arg", dat |-> dat]
        /\ UNCHANGED <<calls, locks, stream, fs, input, origin>>

TakeArgs ==
    \E n \in 0..(MaxArgs + 1) :
        /\ LET r == take_args(trans, n)
           IN /\ trans' = r.trans
              /\ last' = [op |-> "take_args", n |-> n, buffered |-> Len(trans.args),
                          ret |-> r.ret]
        /\ UNCHANGED <<calls, locks, stream, fs, input, origin>>

SetResp ==
    \E dat \in RespChunks :
        /\ Len(stream.sent) + Len(dat) <= MaxResp
        /\ trans' = set_resp(trans, dat)
        /\ stream' = [stream EXCEPT !.sent = @ \o dat]
        /\ last' = [op |-> "set_resp", dat |-> dat]
        /\ UNCHANGED <<calls, locks, fs, input, origin>>

ReadResp ==
    \E n \in 0..(MaxResp + 1) :
        /\ LET r == read_resp(trans, n)
           IN /\ trans' = r.trans
              /\ stream' = [stream EXCEPT !.rcvd = @ \o r.ret]
              /\ last' = [op |-> "read_resp", n |-> n, ret |-> r.ret]
        /\ UNCHANGED <<calls, locks, fs, input, origin>>

ArgMode ==
    /\ last' = [op |-> "arg_mode", ret |-> arg_mode(trans)]
    /\ UNCHANGED <<calls, locks, stream, fs, trans, input, origin>>

NextTrans == AddArg \/ TakeArgs \/ SetResp \/ ReadResp \/ ArgMode

SpecTrans == Init /\ [][NextTrans]_vars

----------------------------------------------------------------------------
(* Notions the properties of the tree are stated with.                     *)

Creates == {"new_file", "new_dir"}

\* the names a node was created under, from the root down
RECURSIVE CreationPath(_)
CreationPath(h) ==
    IF origin[h].parent = 0 THEN <<>>
    ELSE Append(CreationPath(origin[h].parent), origin[h].name)

\* no segment is ".", ".." or empty
PlainPath(comps) == \A i \in 1..Len(comps) : comps[i] \notin {Dot, DotDot, <<>>}

Ino(f, h) == get_attr(f.mem[h]).ino

----------------------------------------------------------------------------
(* Properties of the tree under Spec.                                      *)

\* C1: inodes are unique and never reused. The root has inode 1, the first node
\* created has inode 2, every node created later has a greater inode than every
\* node created before it (attached or detached), and the allocator is never
\* below an inode handed out.
C1_InodesUnique ==
    /\ Ino(fs, root(fs)) = 1
    /\ Len(fs.mem) >= 2 => Ino(fs, 2) = 2
    /\ \A i, j \in Handles : i < j => Ino(fs, i) < Ino(fs, j)
    /\ \A i, j \in Handles : Ino(fs, i) = Ino(fs, j) => i = j
    /\ \A i \in Handles : Ino(fs, i) >= 1 /\ Ino(fs, i) <= fs.inode_alloc

\* a node has been detached by an overwriting creation, which got a later inode
C1_Witness ==
    \E h, j \in Handles :
        /\ h < j
        /\ origin[j] = origin[h]
        /\ ~Attached(h)
        /\ Ino(fs, j) > Ino(fs, h)

\* C2 as stated, for the nodes created under ordinary names: resolving the
\* creation path of any such node ever created returns that node.
C2_Original ==
    \A h \in Handles :
        PlainPath(CreationPath(h)) => walk(fs, CreationPath(h)) = Some(h)

\* C2 amended: resolving from the root the creation path of a node returns that
\* node, when the node is still attached (neither it nor a directory on its
\* path has been replaced by a later creation under the same name) and no name
\* on the path is "." or "..".
C2_AttachedResolves ==
    \A h \in Handles :
        (Attached(h) /\ PlainPath(CreationPath(h)))
            => walk(fs, CreationPath(h)) = Some(h)

\* a file two names below the root, still attached, and resolved by its path
C2_Witness ==
    \E h \in Handles :
        /\ Len(CreationPath(h)) = 2
        /\ PlainPath(CreationPath(h))
        /\ Attached(h)
        /\ to_file(fs.mem[h]) # None
        /\ walk(fs, CreationPath(h)) = Some(h)

C3_Step ==
    (/\ last'.op \in Creates
     /\ to_dir(fs.mem[last'.parent]) # None
     /\ last'.name \in DOMAIN fs.mem[last'.parent].kids)
    => LET p == last'.parent
           n == last'.name
           old == fs.mem[p].kids[n]
       IN /\ last'.ret # None
          /\ Len(fs'.mem) = Len(fs.mem) + 1
          /\ LET new == last'.ret[1]
             IN /\ new # old
                /\ new = Len(fs'.mem)
                /\ fs'.mem[p].kids[n] = new
                /\ fs'.mem[old] = fs.mem[old]
                /\ \A comps \in CompSeqs : walk(fs', comps) # Some(old)
                /\ (Attached(p) /\ PlainPath(Append(CreationPath(p), n)))
                      => walk(fs', Append(CreationPath(p), n)) = Some(new)

\* C3: a creation under a name the parent directory already holds succeeds; the
\* entry then points to the new node, no resolution from the root returns the
\* previous child, and the previous child's node (inode, type, payload or child
\* mapping) is what it was before the call.
C3_OverwriteDetaches == [][C3_Step]_vars

\* the last call overwrote the entry of an earlier node
C3_Witness ==
    /\ last.op \in Creates
    /\ last.ret # None
    /\ \E h \in Handles :
        /\ h < last.ret[1]
        /\ origin[h] = [parent |-> last.parent, name |-> last.name]
        /\ ~Attached(h)
        /\ fs.mem[last.parent].kids[last.name] = last.ret[1]

C4_Step ==
    /\ (last'.op \in Creates /\ to_dir(fs.mem[last'.parent]) = None)
          => /\ last'.ret = None
             /\ fs' = fs
             /\ origin' = origin
    /\ (last'.op \in Creates /\ last'.ret # None)
          => Ino(fs', last'.ret[1]) = Len(fs.mem) + 1

\* C4: a creation whose parent handle refers to a File returns None and leaves
\* the Fs as it was (no node, no entry, the allocator not advanced), so that a
\* successful creation always gets the inode 1 + the number of nodes so far.
C4_FailedCreateNoEffect == [][C4_Step]_vars

\* the last call was a creation under a File, and it returned None
C4_Witness ==
    /\ last.op \in Creates
    /\ last.ret = None
    /\ to_file(fs.mem[last.parent]) # None

----------------------------------------------------------------------------
(* Properties of path strings and their resolution under SpecPath.         *)

\* the segments joined with single slashes
RECURSIVE Join(_)
Join(comps) ==
    IF comps = <<>> THEN <<>>
    ELSE IF Len(comps) = 1 THEN comps[1]
    ELSE comps[1] \o <<Slash>> \o Join(Tail(comps))

Walked == last.op = "test_walk"

\* C5: a "." segment met in a directory leaves the resolution at that directory,
\* and a ".." segment met while the parent stack is empty leaves it at the root
\* it started from, however many of them lead the path.
C5_DotAndDotDot ==
    Walked =>
        LET comps == last.comps
            n == Len(comps)
        IN /\ (n >= 1 /\ \A i \in 1..n : comps[i] = DotDot)
                 => last.ret = Some(root(fs))
           /\ (n >= 1 /\ comps[1] = DotDot)
                 => last.ret = walk(fs, Tail(comps))
           /\ (n >= 1 /\ comps[n] = Dot)
                 => LET before == walk(fs, SubSeq(comps, 1, n - 1))
                    IN (before # None /\ to_dir(fs.mem[before[1]]) # None)
                          => last.ret = before
           /\ comps = <<Dot>> => last.ret = Some(root(fs))

\* "../dir1/." was resolved in main's tree, to dir1
C5_Witness ==
    /\ Walked
    /\ Len(fs.mem) > 1
    /\ last.comps = <<DotDot, Dir1, Dot>>
    /\ last.ret = walk(fs, <<Dir1>>)
    /\ last.ret # None
    /\ last.ret # Some(root(fs))

\* C6: the segments of a path string are its non-empty pieces between slashes, so
\* a slash added in front, at the end or next to another slash changes neither
\* the segments nor the result of the resolution, which are those of the
\* segments joined with single slashes.
C6_SlashesIgnored ==
    Walked =>
        LET s == last.path
            comps == last.comps
        IN /\ \A i \in 1..Len(comps) :
                 Len(comps[i]) > 0 /\ \A k \in 1..Len(comps[i]) : comps[i][k] # Slash
           /\ split_path(<<Slash>> \o s) = comps
           /\ split_path(s \o <<Slash>>) = comps
           /\ \A i \in 1..Len(s) :
                 s[i] = Slash =>
                    split_path(SubSeq(s, 1, i) \o <<Slash>> \o SubSeq(s, i + 1, Len(s))) = comps
           /\ split_path(Join(comps)) = comps
           /\ test_walk(fs, Join(comps)) = last.ret
           /\ test_walk(fs, <<Slash>> \o s \o <<Slash>>) = last.ret

\* "/dir1//f1" was resolved in main's tree, to what "dir1/f1" resolves to
C6_Witness ==
    /\ Walked
    /\ Len(fs.mem) > 1
    /\ last.path = <<Slash>> \o Dir1 \o <<Slash, Slash>> \o F1
    /\ last.comps = <<Dir1, F1>>
    /\ last.ret # None
    /\ to_file(fs.mem[last.ret[1]]) # None
    /\ last.ret = test_walk(fs, Dir1 \o <<Slash>> \o F1)

----------------------------------------------------------------------------
(* Properties of the transaction under SpecTrans.                          *)

C7_Step ==
    /\ (last'.op = "take_args" /\ Len(trans.args) < last'.n)
          => /\ last'.ret = None
             /\ trans' = trans
    /\ last'.op = "add_arg"
          => /\ Len(trans'.args) = Len(trans.args) + 1
             /\ \A i \in 1..Len(trans.args) : trans'.args[i] = trans.args[i]
             /\ trans'.args[Len(trans'.args)] = last'.dat
    /\ (last'.op = "take_args" /\ last'.ret # None)
          => \A i \in 1..Len(last'.ret[1]) : last'.ret[1][i] = trans.args[i]

\* C7: take_args(n) with fewer than n records buffered returns None and leaves
\* the Trans as it was; add_arg puts its record behind the records retained,
\* and what a take_args returns starts with the oldest record buffered.
C7_TakeArgsTooFew == [][C7_Step]_vars

\* take_args found too few records and the records buffered are still there
C7_Witness ==
    /\ last.op = "take_args"
    /\ last.ret = None
    /\ last.buffered >= 1
    /\ Len(trans.args) = last.buffered

C8_Step ==
    (last'.op = "take_args" /\ Len(trans.args) >= last'.n)
    => /\ last'.ret # None
       /\ Len(last'.ret[1]) = last'.n
       /\ \A i \in 1..last'.n : last'.ret[1][i] = trans.args[i]
       /\ trans'.args = <<>>
       /\ trans'.resp = trans.resp

\* C8: take_args(n) with at least n records buffered (n = 0 included) returns
\* the first n records in insertion order and leaves no record buffered.
C8_TakeArgsDrains == [][C8_Step]_vars

\* take_args returned fewer records than were buffered, and none is left
C8_Witness ==
    /\ last.op = "take_args"
    /\ last.ret # None
    /\ last.n >= 1
    /\ last.buffered > last.n
    /\ trans.args = <<>>

C9_Step ==
    last'.op = "read_resp"
    => LET m == Len(last'.ret)
       IN /\ m = Min(last'.n, Len(trans.resp))
          /\ \A i \in 1..m : last'.ret[i] = trans.resp[i]
          /\ Len(trans'.resp) = Len(trans.resp) - m
          /\ \A j \in 1..Len(trans'.resp) : trans'.resp[j] = trans.resp[m + j]
          /\ trans'.args = trans.args
          /\ (trans.resp = <<>> \/ last'.n = 0) => (last'.ret = <<>> /\ trans' = trans)

\* C9: read_resp(n) returns the first min(n, length) bytes of the response and
\* leaves the bytes behind them buffered in their order; on an empty response,
\* or with n = 0, it returns no bytes and leaves the Trans as it was.
C9_ReadRespFront == [][C9_Step]_vars

\* read_resp returned n >= 1 bytes and bytes are left
C9_Witness ==
    /\ last.op = "read_resp"
    /\ last.n >= 1
    /\ Len(last.ret) = last.n
    /\ trans.resp # <<>>

C10_Step ==
    /\ last'.op = "arg_mode" => (last'.ret <=> (trans'.resp = <<>>))
    /\ (arg_mode(trans) /\ last'.op # "set_resp") => arg_mode(trans')
    /\ (arg_mode(trans) /\ last'.op = "set_resp" /\ last'.dat = <<>>) => arg_mode(trans')
    /\ (last'.op = "set_resp" /\ Len(last'.dat) >= 1) => ~arg_mode(trans')
    /\ (last'.op = "read_resp" /\ last'.n >= Len(trans.resp)) => arg_mode(trans')
    /\ (last'.op = "read_resp" /\ last'.n < Len(trans.resp)) => ~arg_mode(trans')

\* C10: arg_mode() is true exactly when the response is empty: it is true at the
\* start and until a set_resp appends a byte, false after a set_resp that appends
\* one or more bytes, and true again after a read_resp that takes all the bytes
\* left.
C10_ArgModeDerived == arg_mode(trans) /\ [][C10_Step]_vars

\* a read_resp has taken the last bytes of the response: arg_mode() is true again
C10_Witness ==
    /\ last.op = "read_resp"
    /\ Len(last.ret) >= 1
    /\ arg_mode(trans)
    /\ trans.resp = <<>>

\* C11 as stated: once the response holds a byte, arg_mode() is false in every
\* later state.
C11_Original == [][~arg_mode(trans) => ~arg_mode(trans')]_vars

C11_Step ==
    /\ (~arg_mode(trans) /\ arg_mode(trans'))
          => (last'.op = "read_resp" /\ last'.n >= Len(trans.resp))
    /\ (~arg_mode(trans) /\ last'.op \in {"add_arg", "take_args", "set_resp", "arg_mode"})
          => ~arg_mode(trans')
    /\ (arg_mode(trans) /\ ~arg_mode(trans'))
          => (last'.op = "set_resp" /\ Len(last'.dat) >= 1)

\* C11 amended: once a set_resp has appended a byte, arg_mode() stays false
\* through every add_arg, take_args, set_resp and arg_mode call, and through
\* every read_resp that leaves a byte; only a read_resp that takes all the bytes
\* left makes it true again.
C11_RespModeUntilDrained == [][C11_Step]_vars

\* records were added while a response was buffered, and arg_mode() is still false
C11_Witness ==
    /\ last.op = "add_arg"
    /\ ~arg_mode(trans)
    /\ Len(trans.args) >= 2

C18_Step ==
    (last'.op = "add_arg" /\ ~arg_mode(trans))
    => /\ trans'.args = Append(trans.args, last'.dat)
       /\ trans'.resp = trans.resp
       /\ take_args(trans', Len(trans'.args)).ret = Some(Append(trans.args, last'.dat))

\* C18: add_arg called while the response is not empty appends its record at
\* the end of the argument sequence, as it does in ArgMode, and a take_args of
\* all the records then returns it last.
C18_AddArgUnguarded == [][C18_Step]_vars

\* a record was added behind another one while a response was buffered
C18_Witness ==
    /\ last.op = "add_arg"
    /\ trans.resp # <<>>
    /\ Len(trans.args) >= 2
    /\ trans.args[Len(trans.args)] = last.dat

C20_Step ==
    /\ last'.op \in {"add_arg", "take_args"}
          => (trans'.resp = trans.resp /\ arg_mode(trans') = arg_mode(trans))
    /\ last'.op \in {"set_resp", "read_resp"} => trans'.args = trans.args
    /\ last'.op = "arg_mode" => trans' = trans

\* C20: add_arg and take_args leave the response, and so arg_mode(), as they
\* were; set_resp and read_resp leave the argument sequence as it was;
\* arg_mode() changes nothing.
C20_HalvesIndependent == [][C20_Step]_vars

\* a set_resp appended bytes while records were buffered, and they still are
C20_Witness ==
    /\ last.op = "set_resp"
    /\ Len(last.dat) >= 1
    /\ Len(trans.args) >= 1

\* C12: the response is a FIFO byte stream: the bytes read_resp has returned so
\* far, in call order, followed by the bytes still buffered, are the bytes given
\* to set_resp so far, in call order.
C12_RespFifo == stream.rcvd \o trans.resp = stream.sent

\* bytes were appended after some had been read, and some are still buffered
C12_Witness ==
    /\ last.op = "set_resp"
    /\ Len(last.dat) >= 1
    /\ Len(stream.rcvd) >= 1
    /\ Len(trans.resp) > Len(last.dat)
    /\ Len(stream.sent) >= 3

\* C13: when the node reached after a proper prefix of the segments is a File,
\* the walk returns None whatever the next segment is (a name, "." or ".."); a
\* File is returned only when the last segment is the name under which its
\* directory holds it.  None is a value the call returns.
C13_FileMidPath ==
    Walked =>
        LET comps == last.comps
            n == Len(comps)
            at(k) == walk(fs, SubSeq(comps, 1, k))
        IN /\ last.ret \in {None} \cup {Some(h) : h \in Handles}
           /\ \A k \in 0..(n - 1) :
                  (at(k) # None /\ to_file(fs.mem[at(k)[1]]) # None) => last.ret = None
           /\ (last.ret # None /\ to_file(fs.mem[last.ret[1]]) # None)
                  => /\ n >= 1
                     /\ comps[n] \notin {Dot, DotDot}
                     /\ at(n - 1) # None
                     /\ to_dir(fs.mem[at(n - 1)[1]]) # None
                     /\ comps[n] \in DOMAIN fs.mem[at(n - 1)[1]].kids
                     /\ fs.mem[at(n - 1)[1]].kids[comps[n]] = last.ret[1]

\* "dir1/f1/.." was walked in the tree main builds, where f1 is a File
C13_Witness ==
    /\ Walked
    /\ fs = MainFs
    /\ last.comps = <<Dir1, F1, DotDot>>
    /\ to_file(fs.mem[walk(fs, <<Dir1, F1>>)[1]]) # None
    /\ last.ret = None

\* the entries of all the directories of the store, attached or not
Entries == {<<d, n>> \in Handles \X Names : to_dir(fs.mem[d]) # None /\ n \in DOMAIN fs.mem[d].kids}

\* the node reached from cur by looking up the names in turn, in kids only
RECURSIVE Descend(_, _, _)
Descend(f, cur, names) ==
    IF names = <<>> THEN Some(cur)
    ELSE IF to_dir(f.mem[cur]) = None THEN None
    ELSE IF Head(names) \in DOMAIN f.mem[cur].kids
         THEN Descend(f, f.mem[cur].kids[Head(names)], Tail(names))
    ELSE None

\* C19: every kids entry of every directory, attached or detached, points to a
\* node whose inode is greater than the directory's; every node is the target of
\* at most one entry; so no node is reached from the root by two name paths and
\* no node is reached from itself.
C19_TreeShape ==
    /\ \A e \in Entries : Ino(fs, fs.mem[e[1]].kids[e[2]]) > Ino(fs, e[1])
    /\ \A e1, e2 \in Entries :
           fs.mem[e1[1]].kids[e1[2]] = fs.mem[e2[1]].kids[e2[2]] => e1 = e2
    /\ \A p \in SeqsUpTo(Names, MaxComps) :
           Descend(fs, fs.root, p) # None
               => \A q \in SeqsUpTo(Names, MaxComps) :
                      Descend(fs, fs.root, q) = Descend(fs, fs.root, p) => q = p
    /\ \A h \in Handles : \A p \in SeqsUpTo(Names, MaxComps) :
           Descend(fs, h, p) = Some(h) => p = <<>>

\* a directory that holds an entry has been detached by an overwriting creation:
\* its entry still points to a node of greater inode, which no other entry
\* points to, and the entry that took its place points to the new node
C19_Witness ==
    /\ last.op \in Creates
    /\ last.ret # None
    /\ \E d \in Handles :
           /\ ~Attached(d)
           /\ origin[d] = [parent |-> last.parent, name |-> last.name]
           /\ \E e \in Entries : e[1] = d /\ Ino(fs, fs.mem[d].kids[e[2]]) > Ino(fs, d)
    /\ \E e \in Entries : Attached(e[1]) /\ fs.mem[e[1]].kids[e[2]] = last.ret[1]

\* the names under which the directory that p resolves to holds a directory
DirChildren(p) ==
    LET r == walk(fs, p)
    IN IF r = None \/ to_dir(fs.mem[r[1]]) = None THEN {}
       ELSE {c \in DOMAIN fs.mem[r[1]].kids : to_dir(fs.mem[fs.mem[r[1]].kids[c]]) # None}

\* descending by c and taking ".." gives what leaving both out gives, for every
\* p and q of at most MaxComps segments together and every c in cs(p)
Cancels(cs(_)) ==
    \A p \in CompSeqs :
        \A c \in cs(p) :
            \A q \in SeqsUpTo(Segs, MaxComps - Len(p)) :
                walk(fs, p \o <<c, DotDot>> \o q) = walk(fs, p \o q)

\* C14 as stated: for every p that resolves to a directory D, every name c under
\* which D holds a directory and every q, resolving p ++ [c, ".."] ++ q gives the
\* result of resolving p ++ q.
C14_Original == Cancels(DirChildren)

PlainDirChildren(p) == DirChildren(p) \ {Dot, DotDot}

\* C14 for the names walk looks up in kids: the same with c other than "." and
\* "..".
C14_PlainChildCancels == Cancels(PlainDirChildren)

\* a directory held by a directory below the root: going down into it and up
\* again is back at its parent, and the walk goes on from there
C14_Witness ==
    \E a, c \in Names \ {Dot, DotDot} :
        /\ walk(fs, <<a>>) = Some(2)
        /\ c \in PlainDirChildren(<<a>>)
        /\ walk(fs, <<a, c>>) = Some(3)
        /\ walk(fs, <<a, c, DotDot>>) = Some(2)
        /\ walk(fs, <<a, c, DotDot, c>>) = Some(3)

----------------------------------------------------------------------------
(* Calls in flight on one tree.  The methods of Fs take &mut self, so on     *)
(* one Fs Rust runs them one after the other; the nodes carry their own      *)
(* Mutex all the same.  Here the calls interleave at every lock and unlock,  *)
(* which includes the schedules that run one call at a time.  walk,          *)
(* new_file and new_dir hold one lock at a time; test_walk locks the node    *)
(* it got once more to print it; show_tree keeps the lock of a directory     *)
(* while it visits the children.                                            *)

\* the number of calls in flight
NProcs == 3

\* root { "a": Directory (handle 2), "b": File (handle 3) }
ConcFs ==
    LET s0 == Fs_new
        s1 == new_dir(s0, root(s0), <<"a">>)
        s2 == new_file(s1.fs, root(s1.fs), <<"b">>, "HELLO")
    IN s2.fs

ConcOrigin == <<RootOrigin, [parent |-> 1, name |-> <<"a">>], [parent |-> 1, name |-> <<"b">>]>>

\* a walk call at its first statement: cur = self.root.clone(), no parents
WalkCall(comps) ==
    [op |-> "walk", comps |-> comps, rest |-> comps, pc |-> "loop", cur |-> ConcFs.root,
     parents |-> <<>>, next |-> None, add_parent |-> FALSE, ret |-> None, acq |-> 0]

\* a new_file or new_dir call at its first statement
CreateCall(op, parent, name, dat) ==
    [op |-> op, parent |-> parent, name |-> name, dat |-> dat, pc |-> "start",
     ret |-> None, acq |-> 0]

\* a test_walk call: the segments of the path, then as walk
TestWalkCall(path) == [WalkCall(split_path(path)) EXCEPT !.op = "test_walk"]

\* a show_tree call at its first statement: one frame per nested call of the
\* function show_tree, with its node k and the entries of kids still to visit
ShowTreeCall ==
    [op |-> "show_tree", pc |-> "fmt", stack |-> <<[k |-> ConcFs.root, todo |-> {}]>>,
     ret |-> None, acq |-> 0]

\* the calls made: two walks, a creation of "b" in directory 2, a creation that
\* replaces "a" in the root, a creation under the File 3, a test_walk of "/a"
\* and a show_tree
CallSet ==
    << WalkCall(<<<<"a">>, <<"b">>>>),
       WalkCall(<<<<"a">>, <<>>, DotDot>>),
       CreateCall("new_file", 2, <<"b">>, "HI"),
       CreateCall("new_dir", 1, <<"a">>, ""),
       CreateCall("new_dir", 3, <<"a">>, ""),
       TestWalkCall(<<Slash, "a">>),
       ShowTreeCall >>

WalkOps == {"walk", "test_walk"}

\* what walk finds out under the lock of cur with a missing child taken as "."
walk_inspect_lax(f, cur, parents, comp) ==
    LET stay == [fail |-> FALSE, next |-> None, add_parent |-> FALSE, parents |-> parents]
    IN IF to_dir(f.mem[cur]) # None
       THEN IF comp = Dot THEN stay
            ELSE IF comp = DotDot
                 THEN IF parents # <<>>
                      THEN [stay EXCEPT !.next = Some(parents[Len(parents)]),
                                        !.parents = SubSeq(parents, 1, Len(parents) - 1)]
                      ELSE stay
            ELSE IF comp \in DOMAIN f.mem[cur].kids
                 THEN [stay EXCEPT !.next = Some(f.mem[cur].kids[comp]), !.add_parent = TRUE]
            ELSE stay
       ELSE [stay EXCEPT !.fail = TRUE]

\* what walk finds out about a non-empty segment under the lock of cur: whether
\* it returns None, the node to move to, whether cur becomes a parent, and the
\* parent stack after a pop
walk_inspect(f, cur, parents, comp) ==
    LET stay == [fail |-> FALSE, next |-> None, add_parent |-> FALSE, parents |-> parents]
    IN IF to_dir(f.mem[cur]) # None
       THEN IF comp = Dot THEN stay
            ELSE IF comp = DotDot
                 THEN IF parents # <<>>
                      THEN [stay EXCEPT !.next = Some(parents[Len(parents)]),
                                        !.parents = SubSeq(parents, 1, Len(parents) - 1)]
                      ELSE stay
            ELSE IF comp \in DOMAIN f.mem[cur].kids
                 THEN [stay EXCEPT !.next = Some(f.mem[cur].kids[comp]), !.add_parent = TRUE]
            ELSE [stay EXCEPT !.fail = TRUE]
       ELSE [stay EXCEPT !.fail = TRUE]

\* the calls are listed in the order of CallSet
InitConc ==
    /\ fs = ConcFs
    /\ origin = ConcOrigin
    /\ locks = [h \in 1..Len(ConcFs.mem) |-> 0]
    /\ \E ids \in [1..NProcs -> 1..Len(CallSet)] :
           /\ \A i \in 1..(NProcs - 1) : ids[i] <= ids[i + 1]
           /\ calls = [i \in 1..NProcs |-> CallSet[ids[i]]]
    /\ trans = Trans_new
    /\ input = <<>>
    /\ stream = [sent |-> <<>>, rcvd |-> <<>>]
    /\ last = [op |-> "new"]

Quiet == UNCHANGED <<trans, input, stream, last>>

\* no segment is left: return Some(cur); test_walk goes on with the result
WalkReturn(i) ==
    /\ calls[i].op \in WalkOps
    /\ calls[i].pc = "loop"
    /\ calls[i].rest = <<>>
    /\ calls' = [calls EXCEPT ![i].pc = IF calls[i].op = "test_walk" THEN "got" ELSE "done",
                              ![i].ret = Some(calls[i].cur)]
    /\ UNCHANGED <<fs, origin, locks>>
    /\ Quiet

\* an empty segment: continue
WalkSkip(i) ==
    /\ calls[i].op \in WalkOps
    /\ calls[i].pc = "loop"
    /\ calls[i].rest # <<>>
    /\ Len(Head(calls[i].rest)) = 0
    /\ calls' = [calls EXCEPT ![i].rest = Tail(@)]
    /\ UNCHANGED <<fs, origin, locks>>
    /\ Quiet

\* cur.lock() for a non-empty segment: waits while another call holds the Mutex
WalkLock(i) ==
    /\ calls[i].op \in WalkOps
    /\ calls[i].pc = "loop"
    /\ calls[i].rest # <<>>
    /\ Len(Head(calls[i].rest)) > 0
    /\ locks[calls[i].cur] = 0
    /\ locks' = [locks EXCEPT ![calls[i].cur] = i]
    /\ calls' = [calls EXCEPT ![i].pc = "locked", ![i].acq = @ + 1,
                              ![i].next = None, ![i].add_parent = FALSE]
    /\ UNCHANGED <<fs, origin>>
    /\ Quiet

\* the if let under the lock, with the guard kept after the statement
WalkInspect_keep(i) ==
    /\ calls[i].op \in WalkOps
    /\ calls[i].pc = "locked"
    /\ LET c == calls[i]
           r == walk_inspect(fs, c.cur, c.parents, Head(c.rest))
       IN calls' = [calls EXCEPT ![i] =
                       IF r.fail
                       THEN [c EXCEPT !.pc = "done", !.ret = None]
                       ELSE [c EXCEPT !.pc = "move", !.next = r.next,
                                      !.add_parent = r.add_parent, !.parents = r.parents]]
    /\ UNCHANGED <<fs, origin, locks>>
    /\ Quiet

\* the if let under the lock; the guard is dropped at the end of the statement,
\* on return None as well
WalkInspect(i) ==
    /\ calls[i].op \in WalkOps
    /\ calls[i].pc = "locked"
    /\ LET c == calls[i]
           r == walk_inspect(fs, c.cur, c.parents, Head(c.rest))
       IN calls' = [calls EXCEPT ![i] =
                       IF r.fail
                       THEN [c EXCEPT !.pc = "done", !.ret = None]
                       ELSE [c EXCEPT !.pc = "move", !.next = r.next,
                                      !.add_parent = r.add_parent, !.parents = r.parents]]
    /\ locks' = [locks EXCEPT ![calls[i].cur] = 0]
    /\ UNCHANGED <<fs, origin>>
    /\ Quiet

\* move to next, and on to the next segment
WalkMove(i) ==
    /\ calls[i].op \in WalkOps
    /\ calls[i].pc = "move"
    /\ LET c == calls[i]
       IN calls' = [calls EXCEPT ![i] =
                       [c EXCEPT !.pc = "loop",
                                 !.rest = Tail(c.rest),
                                 !.parents = IF c.add_parent THEN Append(c.parents, c.cur)
                                             ELSE c.parents,
                                 !.cur = IF c.next # None THEN c.next[1] ELSE c.cur]]
    /\ UNCHANGED <<fs, origin, locks>>
    /\ Quiet

\* parent.lock() of new_file / new_dir
CreateLock(i) ==
    /\ calls[i].op \in Creates
    /\ calls[i].pc = "start"
    /\ locks[calls[i].parent] = 0
    /\ locks' = [locks EXCEPT ![calls[i].parent] = i]
    /\ calls' = [calls EXCEPT ![i].pc = "locked", ![i].acq = @ + 1]
    /\ UNCHANGED <<fs, origin>>
    /\ Quiet

\* the rest of new_file / new_dir with the guard of the parent never dropped
CreateBody_leak(i) ==
    /\ calls[i].op \in Creates
    /\ calls[i].pc = "locked"
    /\ LET c == calls[i]
           r == IF c.op = "new_file" THEN new_file(fs, c.parent, c.name, c.dat)
                ELSE new_dir(fs, c.parent, c.name)
       IN /\ fs' = r.fs
          /\ calls' = [calls EXCEPT ![i].pc = "done", ![i].ret = r.ret]
          /\ origin' = IF r.ret = None THEN origin
                       ELSE Append(origin, [parent |-> c.parent, name |-> c.name])
          /\ locks' = IF r.ret = None THEN locks ELSE Append(locks, 0)
    /\ Quiet

\* the rest of new_file / new_dir under the lock of the parent: to_mut_dir()?,
\* the new node, the insert; the guard is dropped on return
CreateBody(i) ==
    /\ calls[i].op \in Creates
    /\ calls[i].pc = "locked"
    /\ LET c == calls[i]
           r == IF c.op = "new_file" THEN new_file(fs, c.parent, c.name, c.dat)
                ELSE new_dir(fs, c.parent, c.name)
           unlocked == [locks EXCEPT ![c.parent] = 0]
       IN /\ fs' = r.fs
          /\ calls' = [calls EXCEPT ![i].pc = "done", ![i].ret = r.ret]
          /\ origin' = IF r.ret = None THEN origin
                       ELSE Append(origin, [parent |-> c.parent, name |-> c.name])
          /\ locks' = IF r.ret = None THEN unlocked ELSE Append(unlocked, 0)
    /\ Quiet

\* test_walk with Some(kid): kid.lock() for the println
TestWalkLock(i) ==
    /\ calls[i].op = "test_walk"
    /\ calls[i].pc = "got"
    /\ locks[calls[i].ret[1]] = 0
    /\ locks' = [locks EXCEPT ![calls[i].ret[1]] = i]
    /\ calls' = [calls EXCEPT ![i].pc = "print", ![i].acq = @ + 1]
    /\ UNCHANGED <<fs, origin>>
    /\ Quiet

\* the guard is dropped at the end of the println; test_walk returns r
TestWalkUnlock(i) ==
    /\ calls[i].op = "test_walk"
    /\ calls[i].pc = "print"
    /\ locks' = [locks EXCEPT ![calls[i].ret[1]] = 0]
    /\ calls' = [calls EXCEPT ![i].pc = "done"]
    /\ UNCHANGED <<fs, origin>>
    /\ Quiet

\* the frame of the innermost call of the function show_tree
Top(c) == c.stack[Len(c.stack)]

\* show_tree(k, ..): k.lock() for the println of the node
ShowFmtLock(i) ==
    /\ calls[i].op = "show_tree"
    /\ calls[i].pc = "fmt"
    /\ locks[Top(calls[i]).k] = 0
    /\ locks' = [locks EXCEPT ![Top(calls[i]).k] = i]
    /\ calls' = [calls EXCEPT ![i].pc = "fmtlocked", ![i].acq = @ + 1]
    /\ UNCHANGED <<fs, origin>>
    /\ Quiet

\* the guard is dropped at the end of the println
ShowFmtUnlock(i) ==
    /\ calls[i].op = "show_tree"
    /\ calls[i].pc = "fmtlocked"
    /\ locks' = [locks EXCEPT ![Top(calls[i]).k] = 0]
    /\ calls' = [calls EXCEPT ![i].pc = "dir"]
    /\ UNCHANGED <<fs, origin>>
    /\ Quiet

\* k.lock() of the if let: the entries of kids to visit when k is a directory
ShowDirLock(i) ==
    /\ calls[i].op = "show_tree"
    /\ calls[i].pc = "dir"
    /\ LET c == calls[i]
           k == Top(c).k
       IN /\ locks[k] = 0
          /\ locks' = [locks EXCEPT ![k] = i]
          /\ calls' = [calls EXCEPT ![i] =
                          [c EXCEPT !.pc = "dirlocked",
                                    !.acq = @ + 1,
                                    !.stack[Len(c.stack)].todo =
                                        IF to_dir(fs.mem[k]) # None
                                        THEN DOMAIN fs.mem[k].kids ELSE {}]]
    /\ UNCHANGED <<fs, origin>>
    /\ Quiet

\* the for loop over dir.kids, in the order the HashMap gives: show_tree of
\* the next child, with the guard of k kept
ShowKid(i) ==
    /\ calls[i].op = "show_tree"
    /\ calls[i].pc = "dirlocked"
    /\ LET c == calls[i]
           k == Top(c).k
       IN \E nm \in Top(c).todo :
              calls' = [calls EXCEPT ![i] =
                           [c EXCEPT !.pc = "fmt",
                                     !.stack = Append([c.stack EXCEPT ![Len(c.stack)].todo = @ \ {nm}],
                                                      [k |-> fs.mem[k].kids[nm], todo |-> {}])]]
    /\ UNCHANGED <<fs, origin, locks>>
    /\ Quiet

\* the end of the if let: the guard of k is dropped and show_tree(k, ..) returns
ShowDirUnlock(i) ==
    /\ calls[i].op = "show_tree"
    /\ calls[i].pc = "dirlocked"
    /\ Top(calls[i]).todo = {}
    /\ LET c == calls[i]
           below == SubSeq(c.stack, 1, Len(c.stack) - 1)
       IN /\ locks' = [locks EXCEPT ![Top(c).k] = 0]
          /\ calls' = [calls EXCEPT ![i] =
                          [c EXCEPT !.stack = below,
                                    !.pc = IF below = <<>> THEN "done" ELSE "dirlocked"]]
    /\ UNCHANGED <<fs, origin>>
    /\ Quiet

NextConc ==
    \E i \in 1..NProcs :
        \/ WalkReturn(i)
        \/ WalkSkip(i)
        \/ WalkLock(i)
        \/ WalkInspect(i)
        \/ WalkMove(i)
        \/ CreateLock(i)
        \/ CreateBody(i)
        \/ TestWalkLock(i)
        \/ TestWalkUnlock(i)
        \/ ShowFmtLock(i)
        \/ ShowFmtUnlock(i)
        \/ ShowDirLock(i)
        \/ ShowKid(i)
        \/ ShowDirUnlock(i)

SpecConc == InitConc /\ [][NextConc]_vars

\* every call that can take a step is scheduled again
SpecConcFair == SpecConc /\ WF_vars(NextConc)

----------------------------------------------------------------------------
(* Properties of the calls in flight under SpecConc and SpecConcFair.       *)

Procs == 1..NProcs

Held(i) == {h \in Handles : locks[h] = i}

AllDone == \A i \in Procs : calls[i].pc = "done"

\* the node whose lock call i is waiting for or about to take, if any
Wants(i) ==
    LET c == calls[i]
    IN IF c.op \in WalkOps /\ c.pc = "loop" /\ c.rest # <<>> /\ Len(Head(c.rest)) > 0
       THEN Some(c.cur)
       ELSE IF c.op \in Creates /\ c.pc = "start" THEN Some(c.parent)
       ELSE IF c.op = "test_walk" /\ c.pc = "got" THEN c.ret
       ELSE IF c.op = "show_tree" /\ c.pc \in {"fmt", "dir"} THEN Some(Top(c).k)
       ELSE None

\* C15: every walk, new_file and new_dir call in flight holds the lock of at
\* most one node at any moment: a walk holds the lock of its current node only
\* while it inspects it for one segment, and has released it before it takes the
\* next; a creation holds the lock of its parent only, from the lock to the end
\* of the insert.  (The walk inside test_walk does the same; show_tree is no such
\* call and holds the locks of a directory and of the nodes above it.)
C15_OneLockPerCall ==
    /\ DOMAIN locks = Handles
    /\ \A h \in Handles : locks[h] \in {0} \cup Procs
    /\ \A i \in Procs :
           LET c == calls[i]
           IN c.op \in WalkOps \cup Creates
              => /\ Cardinality(Held(i)) <= 1
                 /\ Held(i) = IF c.pc = "locked"
                              THEN (IF c.op \in WalkOps THEN {c.cur} ELSE {c.parent})
                              ELSE IF c.pc = "print" THEN {c.ret[1]}
                              ELSE {}

\* a walk inspects the directory "a" under its lock, having locked and released
\* the root before, while a creation holds the lock of the root
C15_Witness ==
    \E i, j \in Procs :
        /\ calls[i].op = "walk"
        /\ calls[i].pc = "locked"
        /\ calls[i].cur = 2
        /\ calls[i].acq = 2
        /\ Held(i) = {2}
        /\ calls[j].op = "new_dir"
        /\ calls[j].pc = "locked"
        /\ Held(j) = {1}

\* the locks the walk of call i has taken: those of a test_walk less the one
\* taken to print the result
WalkAcq(i) ==
    LET c == calls[i]
    IN IF c.op = "test_walk" /\ (c.pc = "print" \/ (c.pc = "done" /\ c.ret # None))
       THEN c.acq - 1
       ELSE c.acq

\* no call waits for a lock that is not given back: a walk, test_walk or creation
\* that holds a lock is always at a step it can take and that releases the lock,
\* and while calls are left some call can step (show_tree calls included); a
\* walk has taken at most one lock per segment, a creation at most one
C16_Safe ==
    /\ \A h \in Handles :
           (locks[h] # 0 /\ calls[locks[h]].op \in WalkOps \cup Creates)
           => /\ calls[locks[h]].pc \in {"locked", "print"}
              /\ ENABLED (WalkInspect(locks[h]) \/ CreateBody(locks[h]) \/ TestWalkUnlock(locks[h]))
    /\ AllDone \/ ENABLED NextConc
    /\ \A i \in Procs :
           LET c == calls[i]
           IN /\ c.op \in WalkOps
                 => /\ WalkAcq(i) <= (Len(c.comps) - Len(c.rest))
                                     + (IF c.pc \in {"locked", "move"} \/ (c.rest # <<>> /\ c.pc = "done")
                                        THEN 1 ELSE 0)
                    /\ WalkAcq(i) <= Cardinality({k \in 1..Len(c.comps) : c.comps[k] # <<>>})
              /\ c.op \in Creates => c.acq <= 1

\* C16: calls running concurrently on one tree never reach a deadlock, a walk
\* takes at most one lock per segment, and under fair scheduling every call
\* completes.
C16_NoDeadlockAllComplete == [](C16_Safe) /\ <>AllDone

\* a walk that has passed the root waits for the lock of "a", which a creation
\* holds, while a third call waits for it as well
C16_Witness ==
    \E i, j, k \in Procs :
        /\ i # k
        /\ calls[i].op = "walk"
        /\ calls[i].acq = 1
        /\ Wants(i) = Some(2)
        /\ locks[2] = j
        /\ calls[j].op = "new_file"
        /\ Wants(k) = Some(2)

\* the calls are walks of ["a", "b"] and one creation of "b" in the directory
\* that ["a"] resolves to
RaceWalk == CallSet[1]
RaceCreate == CallSet[3]
RaceOnly ==
    /\ \A i \in Procs : calls[i].op \in Creates => calls[i].name = RaceCreate.name /\ calls[i].parent = RaceCreate.parent
    /\ Cardinality({i \in Procs : calls[i].op \in Creates}) = 1
    /\ \A i \in Procs : calls[i].op = "walk" => calls[i].comps = RaceWalk.comps

\* C17: a walk of p ++ [x] running with a single creation of x in the directory
\* p resolves to, where x was absent, returns None or the handle of the node
\* that creation made, a complete File with its data and attributes, and that
\* only once the creation has inserted it; it returns nothing else.
C17_RaceOutcomes ==
    RaceOnly =>
        \A i \in Procs :
            (calls[i].op = "walk" /\ calls[i].pc = "done")
            => \/ calls[i].ret = None
               \/ \E j \in Procs : \E h \in Handles \ (1..Len(ConcFs.mem)) :
                      /\ calls[j].op = "new_file"
                      /\ calls[j].pc = "done"
                      /\ calls[j].ret = Some(h)
                      /\ calls[i].ret = Some(h)
                      /\ fs.mem[h] = File_new(Ino(fs, h), RaceCreate.dat)
                      /\ Ino(fs, h) = fs.inode_alloc
                      /\ fs.mem[RaceCreate.parent].kids[RaceCreate.name] = h

\* both outcomes: of two walks of ["a", "b"] one returned None and the other the
\* node the creation made
C17_Witness ==
    /\ RaceOnly
    /\ AllDone
    /\ \E i, k \in Procs :
           /\ calls[i].op = "walk"
           /\ calls[i].ret = None
           /\ calls[k].op = "walk"
           /\ calls[k].ret = Some(4)
           /\ to_file(fs.mem[4]) # None

====
